---- MODULE Spec2Model ----
(***************************************************************************)
(* InkyPi display state and power management: the DisplayManager           *)
(* (src/display/display_manager.py) and the GPIO input listener            *)
(* (src/hw/gpio_inputs.py).                                                *)
(***************************************************************************)
EXTENDS Integers, Sequences, FiniteSets, TLC

\* ---- bounds --------------------------------------------------------------
MaxDim == 2
MaxCooldown == 2
Horizon == 4
\* the motion callbacks started in a run of the thread-level model
MaxEvents == 3

\* ---- images --------------------------------------------------------------
\* An image is its size and the kind of its pixels.  "black": every pixel
\* (0,0,0); "dim": coloured pixels whose 8-bit luminance rounds to 0, such
\* as (0,0,4); "mixed": black and white pixels.
Pixels == {"black", "dim", "mixed"}
\* a square, a landscape and a portrait size
ImageSizes == {<<1, 1>>, <<MaxDim, 1>>, <<1, MaxDim>>}
Images == {[w |-> wh[1], h |-> wh[2], px |-> px] : wh \in ImageSizes, px \in Pixels}
NoImage == [w |-> 0, h |-> 0, px |-> "none"]

size(img) == <<img.w, img.h>>

\* img.convert("L").getextrema()
getextrema(img) ==
    CASE img.px = "black" -> <<0, 0>>
      [] img.px = "dim"   -> <<0, 0>>
      [] OTHER            -> <<0, 255>>

is_solid_black(img) == getextrema(img) = <<0, 0>>

\* PIL Image.resize((w, h)): the result has exactly the requested size
resize(img, wh) == [img EXCEPT !.w = wh[1], !.h = wh[2]]

\* PIL Image.rotate(180) without expand: same size
rotate180(img) == img

\* Image.new("RGB", (w, h), colour)
new_image(wh, colour) == [w |-> wh[1], h |-> wh[2], px |-> colour]

\* utils.image_utils (not part of the sources at hand)
change_orientation(img, orientation) ==
    IF orientation = "vertical" THEN [img EXCEPT !.w = img.h, !.h = img.w]
    ELSE img

resize_image(img, wh) == [img EXCEPT !.w = wh[1], !.h = wh[2]]

apply_image_enhancement(img) == img

\* ---- driver --------------------------------------------------------------
\* A driver is the set of method names it exposes (hasattr).
PushMethods == {"display_image", "display", "draw"}
DriverMethods == PushMethods \cup
    {"refresh", "sleep", "wake", "clear", "Clear", "wait_until_idle", "ReadBusy"}

DriverVariants ==
    { {"display_image", "display", "draw", "refresh",
       "sleep", "wake", "clear", "wait_until_idle"},
      {"display", "draw", "refresh", "sleep", "Clear", "ReadBusy"},
      {"draw", "refresh", "wake"},
      {"draw"},
      {} }

\* one driver call: the method and the frame handed over
DCall(m, frame) == [m |-> m, frame |-> frame]

\* ---- state --------------------------------------------------------------
VARIABLES
    display_type,        \* config "display_type", as a sequence of characters
    bindings,            \* the driver classes whose import succeeded
    epd_display,         \* whether a driver was handed to the constructor
    manager,             \* the outcome of DisplayManager(...)
    display,             \* DisplayManager.display: methods the driver exposes
    faulty,              \* the driver methods that can raise on this hardware
    resolution,          \* config "resolution"
    orientation,         \* config "orientation": "none" when unset
    inverted_image,      \* config "inverted_image"
    asleep,              \* DisplayManager._asleep
    current_image_file,  \* the cached frame on disk; NoImage when absent
    black_image_file,    \* static/images/black.png; NoImage when unreadable
    is_asleep,           \* GpioInputManager._is_asleep
    ai_motion_enabled,   \* GpioInputManager.ai_motion_enabled
    motion_cooldown,     \* GpioInputManager.motion_cooldown
    last_motion_ts,      \* GpioInputManager._last_motion_ts
    plugin_id,           \* device_config.get_refresh_info().plugin_id
    now,                 \* time.time()
    accepted_ts,         \* history: time committed by the last motion event
                         \* that called manual_update; -1 before the first
    accepted_raised,     \* history: that manual_update call raised
    last,                \* history: the handler that ran last
    \* the thread-level specification
    pc,                  \* where each calling thread is
    lock,                \* the thread holding DisplayManager._lock, or "none"
    glock,               \* the thread holding GpioInputManager._lock, or "none"
    mlog,                \* history: the motion callbacks started, the times
                         \* they committed, the manual_update calls made
    local,               \* each thread's arguments and local variables
    panel                \* the frame the driver was handed last

config_vars == <<display_type, bindings, epd_display, manager, display, faulty, resolution, orientation, inverted_image,
                 black_image_file, ai_motion_enabled, motion_cooldown>>
dm_vars == <<asleep, current_image_file>>
motion_vars == <<last_motion_ts, plugin_id, now, accepted_ts, accepted_raised>>
conc_vars == <<pc, lock, glock, mlog, local, panel>>
vars == <<config_vars, dm_vars, is_asleep, motion_vars, last, conc_vars>>

\* ---- DisplayManager ------------------------------------------------------
\* fnmatch.fnmatchcase for patterns of literal characters and "*"
RECURSIVE fnmatch(_, _)
fnmatch(name, pat) ==
    IF pat = << >> THEN name = << >>
    ELSE IF Head(pat) = "*"
    THEN fnmatch(name, Tail(pat)) \/ (name # << >> /\ fnmatch(Tail(name), pat))
    ELSE name # << >> /\ Head(name) = Head(pat) /\ fnmatch(Tail(name), Tail(pat))

\* config values are sequences of characters; Unset: the key is absent
Unset == <<"unset">>
TypeMock == <<"m", "o", "c", "k">>
TypeInky == <<"i", "n", "k", "y">>
EpdPattern == <<"e", "p", "d", "*", "i", "n", "*">>

\* device_config.get_config("display_type", "inky")
get_display_type == IF display_type = Unset THEN TypeInky ELSE display_type

NotBuilt == [state |-> "none", class |-> "none", error |-> "none"]
Built(class) == [state |-> "ok", class |-> class, error |-> "none"]
Failed(error) == [state |-> "error", class |-> "none", error |-> error]

\* mutant: a driver class that failed to import is instantiated all the same
construct_unchecked(dtype, injected, avail) ==
    IF injected THEN Built("injected")
    ELSE IF dtype = TypeMock THEN Built("MockDisplay")
    ELSE IF dtype = TypeInky THEN Built("InkyDisplay")
    ELSE IF fnmatch(dtype, EpdPattern) THEN Built("WaveshareDisplay")
    ELSE Failed("Unsupported display type")

\* DisplayManager.__init__: the driver class chosen, or the ValueError
construct(dtype, injected, avail) ==
    IF injected THEN Built("injected")
    ELSE IF dtype = TypeMock THEN Built("MockDisplay")
    ELSE IF dtype = TypeInky
    THEN IF "InkyDisplay" \notin avail THEN Failed("InkyDisplay not available")
         ELSE Built("InkyDisplay")
    ELSE IF fnmatch(dtype, EpdPattern)
    THEN IF "WaveshareDisplay" \notin avail THEN Failed("WaveshareDisplay not available")
         ELSE Built("WaveshareDisplay")
    ELSE Failed("Unsupported display type")

get_resolution == resolution

\* what one manager operation did: the new power state and cache, the driver
\* calls it made in order, the frame it returned, whether an exception left it
Result(a, c, calls, ret) ==
    [asleep |-> a, cache |-> c, calls |-> calls, ret |-> ret, raised |-> FALSE]

\* the operation ended in an exception that reached its caller
Raised(a, c, calls) ==
    [asleep |-> a, cache |-> c, calls |-> calls, ret |-> NoImage, raised |-> TRUE]

\* the driver methods a handler called
Called(calls) == {calls[i].m : i \in DOMAIN calls} \ {"delay"}

\* mutant: every push capability the driver exposes is used
push_all(image, bad) ==
    (IF "display_image" \in display THEN <<DCall("display_image", image)>> ELSE << >>)
    \o (IF "display" \in display THEN <<DCall("display", image)>> ELSE << >>)
    \o (IF "draw" \in display THEN <<DCall("draw", image)>> ELSE << >>)
    \o (IF "draw" \in display /\ "refresh" \in display
        THEN <<DCall("refresh", NoImage)>> ELSE << >>)

\* the hardware push: the richest capability the driver exposes.  bad is
\* the driver method that raises during this handler ("none": no failure);
\* the exception is caught and logged.
push(image, bad) ==
    IF "display_image" \in display THEN <<DCall("display_image", image)>>
    ELSE IF "display" \in display THEN <<DCall("display", image)>>
    ELSE IF "draw" \in display THEN
        IF bad # "draw" /\ "refresh" \in display
        THEN <<DCall("draw", image), DCall("refresh", NoImage)>>
        ELSE <<DCall("draw", image)>>
    ELSE << >>

\* mutant: the asleep check before the hardware push is missing
skip_draw_never(a, force_draw) == FALSE

skip_draw(a, force_draw) == a /\ ~force_draw

\* the driver exposes a push capability
CanPush == display \cap PushMethods # {}

\* mutant: the cache is written whether or not the caller asked for it
cache_write_unasked(a, save_to_cache) == ~a

\* mutant: the cache is written whatever the power state
cache_write_asleep(a, save_to_cache) == save_to_cache

cache_write(a, save_to_cache) == save_to_cache /\ ~a

\* mutant: the black frame is pushed at the size it came in
fast_frame_noresize(image) == image

\* the frame of the fast path: the black image at the panel resolution
fast_frame(image) ==
    IF size(image) # get_resolution THEN resize(image, get_resolution) ELSE image

\* the frame of the normal path: the transform pipeline
render(image) ==
    LET i1 == IF orientation # "none"
              THEN change_orientation(image, orientation) ELSE image
        i2 == resize_image(i1, get_resolution)
        i3 == IF inverted_image THEN rotate180(i2) ELSE i2
    IN  apply_image_enhancement(i3)

\* mutant: the fast path never draws while asleep, forced or not
fast_path_unforced(a, c, image, force_draw, bad) ==
    LET img == fast_frame(image)
    IN  IF a THEN Result(a, c, << >>, img)
        ELSE Result(a, c, push(img, bad), img)

fast_path(a, c, image, force_draw, bad) ==
    LET img == fast_frame(image)
    IN  IF skip_draw(a, force_draw) THEN Result(a, c, << >>, img)
        ELSE Result(a, c, push(img, bad), img)

\* mutant: the frame is cached after the push, and only when it went through
normal_path_cache_after_push(a, c, image, save_to_cache, force_draw, bad) ==
    LET img == render(image)
        calls == IF skip_draw(a, force_draw) THEN << >> ELSE push(img, bad)
        c2 == IF cache_write(a, save_to_cache) /\ calls # << >> /\ bad \notin Called(calls)
              THEN img ELSE c
    IN  Result(a, c2, calls, img)

normal_path(a, c, image, save_to_cache, force_draw, bad) ==
    LET img == render(image)
        c2 == IF cache_write(a, save_to_cache) THEN img ELSE c
    IN  IF skip_draw(a, force_draw) THEN Result(a, c2, << >>, img)
        ELSE Result(a, c2, push(img, bad), img)

\* mutant: no solid-black fast path, every image takes the normal path
display_image_nofast(a, c, image, save_to_cache, force_draw, bad) ==
    normal_path(a, c, image, save_to_cache, force_draw, bad)

display_image(a, c, image, save_to_cache, force_draw, bad) ==
    IF is_solid_black(image)
    THEN fast_path(a, c, image, force_draw, bad)
    ELSE normal_path(a, c, image, save_to_cache, force_draw, bad)

\* mutant: sleep toggles the power state
sleep_toggle(a, c, bad) ==
    Result(~a, c,
           IF "sleep" \in display THEN <<DCall("sleep", NoImage)>> ELSE << >>,
           NoImage)

\* the flag is set first; the driver call is optional and its exception is
\* swallowed
sleep(a, c, bad) ==
    LET a1 == TRUE
    IN  IF "sleep" \in display
        THEN Result(a1, c, <<DCall("sleep", NoImage)>>, NoImage)
        ELSE Result(a1, c, << >>, NoImage)

\* mutant: the driver is woken before the flag is cleared, outside any try
wake_driver_first(a, c, bad) ==
    IF "wake" \in display
    THEN IF bad = "wake" THEN Raised(a, c, <<DCall("wake", NoImage)>>)
         ELSE Result(FALSE, c, <<DCall("wake", NoImage)>>, NoImage)
    ELSE Result(FALSE, c, << >>, NoImage)

wake(a, c, bad) ==
    LET a1 == FALSE
    IN  IF "wake" \in display
        THEN Result(a1, c, <<DCall("wake", NoImage)>>, NoImage)
        ELSE Result(a1, c, << >>, NoImage)

\* "delay" is the time.sleep(3) fallback
wait_until_idle(a, c, bad) ==
    Result(a, c,
           IF "wait_until_idle" \in display
           THEN IF bad = "wait_until_idle"
                THEN <<DCall("wait_until_idle", NoImage), DCall("delay", NoImage)>>
                ELSE <<DCall("wait_until_idle", NoImage)>>
           ELSE IF "ReadBusy" \in display
           THEN IF bad = "ReadBusy"
                THEN <<DCall("ReadBusy", NoImage), DCall("delay", NoImage)>>
                ELSE <<DCall("ReadBusy", NoImage)>>
           ELSE <<DCall("delay", NoImage)>>,
           NoImage)

clear_panel(a, c, to_white, bad) ==
    Result(a, c,
           IF "clear" \in display
           THEN <<DCall("clear", NoImage)>>
           ELSE IF "Clear" \in display
           THEN <<DCall("Clear", NoImage)>>
           ELSE << >>,
           NoImage)

\* ---- GpioInputManager: button ---------------------------------------------
panel_size == get_resolution

\* what can raise into a callback of the listener: a configuration read or
\* a call of the manager
ListenerFaults ==
    {"get_resolution", "get_refresh_info",
     "dm.display_image", "dm.wait_until_idle", "dm.sleep"}

\* the blanking image: black.png when it loads, else a generated black frame
blanking_image ==
    IF black_image_file # NoImage THEN black_image_file
    ELSE new_image(panel_size, "black")

\* mutant: the panel is put to sleep before the blanking frame is drawn
press_black_sleep_first(a, c, bad) ==
    LET r1 == sleep(a, c, bad)
        r2 == display_image(r1.asleep, r1.cache, blanking_image, FALSE, FALSE, bad)
        r3 == wait_until_idle(r2.asleep, r2.cache, bad)
    IN  [asleep |-> r3.asleep, cache |-> r3.cache,
         calls |-> r1.calls \o r2.calls \o r3.calls,
         mcalls |-> <<"sleep", "display_image", "wait_until_idle">>,
         is_asleep |-> TRUE, raised |-> FALSE]

\* mutant: the press toggles, waking the panel and redrawing the cached
\* frame (a white frame when there is none) when the manager is asleep
press_black_toggle(a, c, bad) ==
    IF a
    THEN LET r1 == wake(a, c, bad)
             r2 == clear_panel(r1.asleep, r1.cache, TRUE, bad)
             r3 == display_image(r2.asleep, r2.cache,
                                 IF c # NoImage THEN c ELSE new_image(panel_size, "mixed"),
                                 TRUE, FALSE, bad)
         IN  [asleep |-> r3.asleep, cache |-> r3.cache,
              calls |-> r1.calls \o r2.calls \o r3.calls,
              mcalls |-> <<"wake", "clear_panel", "display_image">>,
              is_asleep |-> FALSE, raised |-> FALSE]
    ELSE LET r1 == display_image(a, c, blanking_image, FALSE, FALSE, bad)
             r2 == wait_until_idle(r1.asleep, r1.cache, bad)
             r3 == sleep(r2.asleep, r2.cache, bad)
         IN  [asleep |-> r3.asleep, cache |-> r3.cache,
              calls |-> r1.calls \o r2.calls \o r3.calls,
              mcalls |-> <<"display_image", "wait_until_idle", "sleep">>,
              is_asleep |-> TRUE, raised |-> FALSE]

\* mutant: the blanking draw is allowed to write the cache
press_black_cached(a, c, bad) ==
    LET r1 == display_image(a, c, blanking_image, TRUE, FALSE, bad)
        r2 == wait_until_idle(r1.asleep, r1.cache, bad)
        r3 == sleep(r2.asleep, r2.cache, bad)
    IN  [asleep |-> r3.asleep, cache |-> r3.cache,
         calls |-> r1.calls \o r2.calls \o r3.calls,
         mcalls |-> <<"display_image", "wait_until_idle", "sleep">>,
         is_asleep |-> TRUE, raised |-> FALSE]

\* mutant: no try/except around the body of the handler
press_black_unguarded(a, c, bad) ==
    IF (black_image_file = NoImage /\ bad = "get_resolution") \/ bad = "dm.display_image"
    THEN [asleep |-> a, cache |-> c, calls |-> << >>, mcalls |-> << >>,
          is_asleep |-> is_asleep, raised |-> TRUE]
    ELSE LET r1 == display_image(a, c, blanking_image, FALSE, FALSE, bad)
             r2 == wait_until_idle(r1.asleep, r1.cache, bad)
             r3 == sleep(r2.asleep, r2.cache, bad)
         IN  [asleep |-> r3.asleep, cache |-> r3.cache,
              calls |-> r1.calls \o r2.calls \o r3.calls,
              mcalls |-> <<"display_image", "wait_until_idle", "sleep">>,
              is_asleep |-> TRUE, raised |-> FALSE]

\* mutant: the tracked state is flipped, not set
press_black_flip(a, c, bad) ==
    LET r1 == display_image(a, c, blanking_image, FALSE, FALSE, bad)
        r2 == wait_until_idle(r1.asleep, r1.cache, bad)
        r3 == sleep(r2.asleep, r2.cache, bad)
    IN  [asleep |-> r3.asleep, cache |-> r3.cache,
         calls |-> r1.calls \o r2.calls \o r3.calls,
         mcalls |-> <<"display_image", "wait_until_idle", "sleep">>,
         is_asleep |-> ~is_asleep, raised |-> FALSE]

\* the manager calls of one button press, in order, with what each did.
\* bad also names what raises into the handler itself: "get_resolution"
\* (_panel_size, needed when black.png did not load), "dm.display_image",
\* "dm.wait_until_idle", "dm.sleep" (the manager call ends in an
\* exception).  The first two end the handler in its except block, before
\* the idle wait, the sleep and the _is_asleep update; the last two are
\* passed over.
press_black(a, c, bad) ==
    IF black_image_file = NoImage /\ bad = "get_resolution"
    THEN [asleep |-> a, cache |-> c, calls |-> << >>, mcalls |-> << >>,
          is_asleep |-> is_asleep, raised |-> FALSE]
    ELSE LET r1 == IF bad = "dm.display_image" THEN Raised(a, c, << >>)
                   ELSE display_image(a, c, blanking_image, FALSE, FALSE, bad)
         IN  IF r1.raised
             THEN [asleep |-> r1.asleep, cache |-> r1.cache, calls |-> r1.calls,
                   mcalls |-> <<"display_image">>,
                   is_asleep |-> is_asleep, raised |-> FALSE]
             ELSE LET r2 == IF bad = "dm.wait_until_idle"
                            THEN Raised(r1.asleep, r1.cache, << >>)
                            ELSE wait_until_idle(r1.asleep, r1.cache, bad)
                      r3 == IF bad = "dm.sleep"
                            THEN Raised(r2.asleep, r2.cache, << >>)
                            ELSE sleep(r2.asleep, r2.cache, bad)
                  IN  [asleep |-> r3.asleep, cache |-> r3.cache,
                       calls |-> r1.calls \o r2.calls \o r3.calls,
                       mcalls |-> <<"display_image", "wait_until_idle", "sleep">>,
                       is_asleep |-> TRUE, raised |-> FALSE]

\* ---- GpioInputManager: motion ----------------------------------------------
\* the gates before the cooldown: the feature flag, both power states, the
\* plugin on screen
\* mutant: the listener's own asleep mirror is not consulted
motion_gates_manager_only(enabled, dm_asleep, l_asleep, pid) ==
    enabled /\ ~dm_asleep /\ pid = "ai_text"

motion_gates(enabled, dm_asleep, l_asleep, pid) ==
    enabled /\ ~(dm_asleep \/ l_asleep) /\ pid = "ai_text"

\* mutant: an event exactly one cooldown after the last one is still refused
in_cooldown_inclusive(t, ts, cooldown) == (t - ts) <= cooldown

in_cooldown(t, ts, cooldown) == (t - ts) < cooldown

\* mutant: a manual_update that raises gives the cooldown timestamp back
on_motion_rollback(enabled, dm_asleep, l_asleep, pid, ts, cooldown, t1, t2, trigger_raises) ==
    IF ~motion_gates(enabled, dm_asleep, l_asleep, pid)
    THEN [ts |-> ts, updates |-> 0, raised |-> FALSE]
    ELSE IF in_cooldown(t1, ts, cooldown) THEN [ts |-> ts, updates |-> 0, raised |-> FALSE]
    ELSE IF in_cooldown(t2, ts, cooldown) THEN [ts |-> ts, updates |-> 0, raised |-> FALSE]
    ELSE IF trigger_raises THEN [ts |-> ts, updates |-> 1, raised |-> FALSE]
    ELSE [ts |-> t2, updates |-> 1, raised |-> FALSE]

\* one motion event: t1 is the clock at the unlocked check, t2 at the locked
\* one, trigger_raises whether manual_update raises.  Gives the new
\* _last_motion_ts, the number of manual_update calls and whether an
\* exception left the callback: the timestamp is committed before the call
\* and the call's exception is caught and logged.
on_motion(enabled, dm_asleep, l_asleep, pid, ts, cooldown, t1, t2, trigger_raises) ==
    IF ~motion_gates(enabled, dm_asleep, l_asleep, pid)
    THEN [ts |-> ts, updates |-> 0, raised |-> FALSE]
    ELSE IF in_cooldown(t1, ts, cooldown) THEN [ts |-> ts, updates |-> 0, raised |-> FALSE]
    ELSE IF in_cooldown(t2, ts, cooldown) THEN [ts |-> ts, updates |-> 0, raised |-> FALSE]
    ELSE [ts |-> t2, updates |-> 1, raised |-> FALSE]

\* ---- history record ------------------------------------------------------
\* op: the handler; asleep0: the manager's power state when it started; image,
\* cache0: the cached frame when it started; bad: the driver method that
\* raised while it ran; raised: whether an exception left the handler;
\* bad0: what raised into the listener's callback that ran just before;
\* save, force: the display_image call it made; calls: the driver calls in
\* order; mcalls: the manager calls of a button press in order; for a motion
\* event t: the clock when it arrived, ts0: accepted_ts before it, gates:
\* whether it passed the gates before the cooldown, updates: the number of
\* manual_update calls it made, pid: the plugin on screen, lts0:
\* _last_motion_ts before it, traised: its manual_update call raised,
\* ts0_raised: the call of the event that committed ts0 had raised
Last(op, image, save, force, r, mcalls, bad) ==
    [op |-> op, asleep0 |-> asleep, cache0 |-> current_image_file,
     image |-> image, save |-> save,
     force |-> force, calls |-> r.calls, ret |-> r.ret, mcalls |-> mcalls,
     bad |-> bad, raised |-> r.raised,
     bad0 |-> IF last.bad \in ListenerFaults THEN last.bad
              ELSE IF last.traised THEN "manual_update" ELSE "none",
     t |-> 0, ts0 |-> -1, gates |-> FALSE, updates |-> 0,
     pid |-> "none", lts0 |-> 0, traised |-> FALSE, ts0_raised |-> FALSE]

NoResult == Result(FALSE, NoImage, << >>, NoImage)

\* ---- actions: one per handler ---------------------------------------------
DisplayImage ==
    \E image \in Images, save_to_cache \in BOOLEAN, force_draw \in BOOLEAN,
       bad \in {"none"} \cup (display \cap faulty) :
        LET r == display_image(asleep, current_image_file, image,
                               save_to_cache, force_draw, bad)
        IN  /\ bad \in {"none"} \cup Called(r.calls)
            /\ asleep' = r.asleep
            /\ current_image_file' = r.cache
            /\ last' = Last("display_image", image, save_to_cache, force_draw, r, << >>, bad)
            /\ UNCHANGED <<conc_vars, config_vars, is_asleep, motion_vars>>

Sleep ==
    \E bad \in {"none"} \cup (display \cap faulty \cap {"sleep"}) :
        LET r == sleep(asleep, current_image_file, bad)
        IN  /\ asleep' = r.asleep
            /\ current_image_file' = r.cache
            /\ last' = Last("sleep", NoImage, FALSE, FALSE, r, << >>, bad)
            /\ UNCHANGED <<conc_vars, config_vars, is_asleep, motion_vars>>

Wake ==
    \E bad \in {"none"} \cup (display \cap faulty \cap {"wake"}) :
        LET r == wake(asleep, current_image_file, bad)
        IN  /\ asleep' = r.asleep
            /\ current_image_file' = r.cache
            /\ last' = Last("wake", NoImage, FALSE, FALSE, r, << >>, bad)
            /\ UNCHANGED <<conc_vars, config_vars, is_asleep, motion_vars>>

WaitUntilIdle ==
    \E bad \in {"none"} \cup (display \cap faulty \cap {"wait_until_idle", "ReadBusy"}) :
        LET r == wait_until_idle(asleep, current_image_file, bad)
        IN  /\ asleep' = r.asleep
            /\ current_image_file' = r.cache
            /\ last' = Last("wait_until_idle", NoImage, FALSE, FALSE, r, << >>, bad)
            /\ UNCHANGED <<conc_vars, config_vars, is_asleep, motion_vars>>

ClearPanel ==
    \E to_white \in BOOLEAN, bad \in {"none"} \cup (display \cap faulty) :
        LET r == clear_panel(asleep, current_image_file, to_white, bad)
        IN  /\ bad \in {"none"} \cup Called(r.calls)
            /\ asleep' = r.asleep
            /\ current_image_file' = r.cache
            /\ last' = Last("clear_panel", NoImage, FALSE, FALSE, r, << >>, bad)
            /\ UNCHANGED <<conc_vars, config_vars, is_asleep, motion_vars>>

PressBlack ==
    \E bad \in {"none"} \cup ((display \cup ListenerFaults) \cap faulty) :
        LET r == press_black(asleep, current_image_file, bad)
        IN  /\ bad \in {"none"} \cup Called(r.calls)
                       \cup {"dm.display_image", "dm.wait_until_idle", "dm.sleep"}
                       \cup (IF black_image_file = NoImage
                             THEN {"get_resolution"} ELSE {})
            /\ asleep' = r.asleep
            /\ current_image_file' = r.cache
            /\ is_asleep' = r.is_asleep
            /\ last' = Last("press", blanking_image, FALSE, FALSE,
                            [calls |-> r.calls, ret |-> NoImage, raised |-> r.raised],
                            r.mcalls, bad)
            /\ UNCHANGED <<conc_vars, config_vars, motion_vars>>

StartTime == MaxCooldown
MaxTime == StartTime + Horizon

OnMotion ==
    \E d \in {0, 1}, trigger_raises \in BOOLEAN,
       bad \in {"none"} \cup ({"get_refresh_info"} \cap faulty) :
        LET t1 == now
            t2 == now + d
            \* lines 123-127: a get_refresh_info that raises counts as no plugin
            pid == IF bad = "get_refresh_info" THEN "none" ELSE plugin_id
            r == on_motion(ai_motion_enabled, asleep, is_asleep, pid,
                           last_motion_ts, motion_cooldown, t1, t2, trigger_raises)
        IN  /\ t2 <= MaxTime
            /\ trigger_raises => r.updates > 0
            /\ last_motion_ts' = r.ts
            /\ now' = t2
            /\ accepted_ts' = IF r.updates > 0 THEN t2 ELSE accepted_ts
            /\ accepted_raised' = IF r.updates > 0 THEN trigger_raises ELSE accepted_raised
            /\ last' = [Last("motion", NoImage, FALSE, FALSE, NoResult, << >>, bad)
                            EXCEPT !.t = t1, !.ts0 = accepted_ts,
                                   !.gates = motion_gates(ai_motion_enabled, asleep,
                                                          is_asleep, pid),
                                   !.updates = r.updates,
                                   !.pid = pid, !.lts0 = last_motion_ts,
                                   !.traised = trigger_raises /\ r.updates > 0,
                                   !.ts0_raised = accepted_raised,
                                   !.raised = r.raised]
            /\ UNCHANGED <<conc_vars, config_vars, dm_vars, is_asleep, plugin_id>>

\* the clock advances
Tick ==
    /\ now < MaxTime
    /\ now' = now + 1
    /\ UNCHANGED <<conc_vars, config_vars, dm_vars, is_asleep, last_motion_ts, plugin_id,
                   accepted_ts, accepted_raised, last>>

\* the refresh scheduler shows another plugin and records it
RefreshInfo ==
    \E pid \in {"none", "ai_text", "todo_list"} :
        /\ pid # plugin_id
        /\ plugin_id' = pid
        /\ UNCHANGED <<conc_vars, config_vars, dm_vars, is_asleep, last_motion_ts, now,
                       accepted_ts, accepted_raised, last>>

InitLast ==
    [op |-> "init", asleep0 |-> FALSE, cache0 |-> NoImage,
     image |-> NoImage, save |-> FALSE,
     force |-> FALSE, calls |-> << >>, ret |-> NoImage, mcalls |-> << >>,
     bad |-> "none", raised |-> FALSE, bad0 |-> "none",
     t |-> 0, ts0 |-> -1, gates |-> FALSE, updates |-> 0,
     pid |-> "none", lts0 |-> 0, traised |-> FALSE, ts0_raised |-> FALSE]

\* ---- specification: the manager and the button, one handler at a time -----
PanelRes == <<MaxDim, 1>>

\* black.png after ensure_black_image: absent or unreadable, or an image of
\* the panel size (transposed when the orientation is vertical) whose
\* content was never looked at
BlackFiles(res, orient) ==
    LET wh == IF orient = "vertical" THEN <<res[2], res[1]>> ELSE res
    IN  {NoImage} \cup {new_image(wh, px) : px \in {"black", "mixed"}}

\* the threads of the scheduler and the web server, of the button callback
\* and of the motion callback
Threads == {"t1", "t2"}
Buttons == {"b1", "b2"}
Sensors == {"m1", "m2"}
AllThreads == Threads \cup Buttons \cup Sensors

\* ret: where the thread goes on when the manager call it is in returns;
\* t: the clock a motion callback read; ok: it committed the timestamp
NoLocal ==
    [image |-> NoImage, save |-> FALSE, force |-> FALSE, frame |-> NoImage,
     a |-> FALSE, c |-> NoImage, p |-> NoImage,
     ret |-> "idle", t |-> 0, ok |-> FALSE]

NoLog == [events |-> 0, accepts |-> << >>, triggers |-> 0]

\* a manager built around a driver handed to its constructor
InitInjected ==
    /\ display_type = Unset
    /\ bindings = {}
    /\ epd_display = TRUE
    /\ manager = Built("injected")

InitThreads ==
    /\ pc = [t \in AllThreads |-> "idle"]
    /\ lock = "none"
    /\ glock = "none"
    /\ mlog = NoLog
    /\ local = [t \in AllThreads |-> NoLocal]
    /\ panel = NoImage

InitListener ==
    /\ is_asleep = FALSE
    /\ ai_motion_enabled = FALSE
    /\ motion_cooldown = 0
    /\ last_motion_ts = 0
    /\ plugin_id = "none"
    /\ now = 0
    /\ accepted_ts = -1
    /\ accepted_raised = FALSE

\* the failures of a flaky panel: a draw or a busy wait that raises
PanelFaults == {"draw", "wait_until_idle", "ReadBusy"}

Init ==
    /\ display \in DriverVariants
    /\ faulty = PanelFaults
    /\ resolution = PanelRes
    /\ orientation \in {"none", "vertical"}
    /\ inverted_image = FALSE
    /\ asleep = FALSE
    /\ current_image_file = NoImage
    /\ black_image_file \in BlackFiles(resolution, orientation)
    /\ InitListener
    /\ InitThreads
    /\ InitInjected
    /\ last = InitLast

Next ==
    \/ DisplayImage
    \/ Sleep
    \/ Wake
    \/ WaitUntilIdle
    \/ ClearPanel
    \/ PressBlack

Spec == Init /\ [][Next]_vars

\* ---- specification: a driver whose every call can raise --------------------
FailDrivers ==
    { {"display_image", "display", "draw", "refresh",
       "sleep", "wake", "clear", "wait_until_idle"},
      {"display", "draw", "refresh", "sleep", "Clear", "ReadBusy"},
      {"draw", "refresh", "wake"} }

InitFail ==
    /\ display \in FailDrivers
    /\ faulty = DriverMethods
    /\ resolution = PanelRes
    /\ orientation = "none"
    /\ inverted_image = FALSE
    /\ asleep = FALSE
    /\ current_image_file = NoImage
    /\ black_image_file = NoImage
    /\ InitListener
    /\ InitThreads
    /\ InitInjected
    /\ last = InitLast

SpecFail == InitFail /\ [][Next]_vars

\* ---- specification: construction of the manager -----------------------------
DisplayTypes ==
    { Unset, TypeMock, TypeInky,
      <<"M", "o", "c", "k">>,
      <<"i", "n", "k", "y", "2">>,
      <<"e", "p", "d">>,
      <<"e", "p", "d", "i", "n">>,
      <<"e", "p", "d", "7", "i", "n", "5">>,
      <<"e", "p", "d", "n", "i">>,
      <<"e", "p", "d", "7", "i">>,
      <<"x", "e", "p", "d", "i", "n">>,
      <<"i", "n", "e", "p", "d">>,
      << >> }

DriverClasses == {"InkyDisplay", "WaveshareDisplay"}

Construct ==
    /\ manager.state = "none"
    /\ manager' = construct(get_display_type, epd_display, bindings)
    /\ UNCHANGED <<display_type, bindings, epd_display, display, faulty, resolution,
                   orientation, inverted_image, black_image_file,
                   ai_motion_enabled, motion_cooldown,
                   dm_vars, is_asleep, motion_vars, last, conc_vars>>

InitConstruct ==
    /\ display_type \in DisplayTypes
    /\ bindings \in SUBSET DriverClasses
    /\ epd_display \in BOOLEAN
    /\ manager = NotBuilt
    /\ display = {"display_image"}
    /\ faulty = PanelFaults
    /\ resolution = PanelRes
    /\ orientation = "none"
    /\ inverted_image = FALSE
    /\ asleep = FALSE
    /\ current_image_file = NoImage
    /\ black_image_file = NoImage
    /\ InitListener
    /\ InitThreads
    /\ last = InitLast

NextConstruct == Construct

SpecConstruct == InitConstruct /\ [][NextConstruct]_vars

\* ---- specification: motion events, the clock and the power state ----------
InitMotion ==
    /\ display = {"display_image", "sleep", "wake"}
    /\ faulty = PanelFaults
    /\ resolution = PanelRes
    /\ orientation = "none"
    /\ inverted_image = FALSE
    /\ asleep = FALSE
    /\ current_image_file = NoImage
    /\ black_image_file = NoImage
    /\ is_asleep = FALSE
    /\ ai_motion_enabled \in BOOLEAN
    /\ motion_cooldown \in 0..MaxCooldown
    /\ last_motion_ts = 0
    /\ plugin_id \in {"none", "ai_text"}
    /\ now = StartTime
    /\ accepted_ts = -1
    /\ accepted_raised = FALSE
    /\ InitThreads
    /\ InitInjected
    /\ last = InitLast

NextMotion ==
    \/ OnMotion
    \/ Tick
    \/ RefreshInfo
    \/ PressBlack
    \/ Sleep
    \/ Wake

SpecMotion == InitMotion /\ [][NextMotion]_vars

\* ---- specification: callbacks of the listener into which calls raise ---------
InitCallbacks ==
    /\ display = {"display_image", "sleep"}
    /\ faulty = ListenerFaults
    /\ resolution = PanelRes
    /\ orientation = "none"
    /\ inverted_image = FALSE
    /\ asleep = FALSE
    /\ current_image_file = NoImage
    /\ black_image_file \in {NoImage, new_image(PanelRes, "black")}
    /\ is_asleep = FALSE
    /\ ai_motion_enabled = TRUE
    /\ motion_cooldown = 1
    /\ last_motion_ts = 0
    /\ plugin_id = "ai_text"
    /\ now = StartTime
    /\ accepted_ts = -1
    /\ accepted_raised = FALSE
    /\ InitThreads
    /\ InitInjected
    /\ last = InitLast

NextCallbacks ==
    \/ OnMotion
    \/ Tick
    \/ PressBlack
    \/ Wake

SpecCallbacks == InitCallbacks /\ [][NextCallbacks]_vars

\* ---- specification: the manager under every rendering configuration -------
Resolutions == {<<MaxDim, 1>>, <<1, MaxDim>>, <<MaxDim, MaxDim>>}

InitRender ==
    /\ display \in {{"display_image"}, {"draw", "refresh"}}
    /\ faulty = PanelFaults
    /\ resolution \in Resolutions
    /\ orientation \in {"none", "horizontal", "vertical"}
    /\ inverted_image \in BOOLEAN
    /\ asleep = FALSE
    /\ current_image_file = NoImage
    /\ black_image_file = NoImage
    /\ InitListener
    /\ InitThreads
    /\ InitInjected
    /\ last = InitLast

SpecRender == InitRender /\ [][Next]_vars

\* ---- specification: threads calling into the manager concurrently ----------
\* Each thread runs one manager operation at a time, statement by statement.
\* local[t]: the arguments of the call, the frame it computed, and a, c, p:
\* the power state, the cache and the panel as the thread last saw or wrote
\* them inside its critical section.
ConcImages == {img \in Images : size(img) = <<1, 1>> /\ img.px \in {"black", "mixed"}}

\* waiting at "with self._lock:" and the statement that follows it
AfterLock ==
    [di_lock |-> "di_transform", sl_lock |-> "sl_body",
     wk_lock |-> "wk_body", cp_lock |-> "cp_body"]
LockPcs == DOMAIN AfterLock
\* inside "with self._lock:"
InLock == {"di_transform", "di_cache", "di_push", "sl_body", "wk_body", "cp_body", "unlock"}
\* at a statement that calls into the driver
DriverPcs == {"di_push", "sl_body", "wk_body", "cp_body", "wui_wait"}

\* mutant: the lock is not exclusive
can_acquire_always(t) == TRUE

\* threading.RLock: free, or already held by the same thread
can_acquire(t) == lock \in {"none", t}

CallDisplayImage(t) ==
    /\ pc[t] = "idle"
    /\ \E image \in ConcImages, save_to_cache \in BOOLEAN, force_draw \in BOOLEAN :
          local' = [local EXCEPT ![t] = [NoLocal EXCEPT !.image = image,
                                        !.save = save_to_cache, !.force = force_draw]]
    /\ pc' = [pc EXCEPT ![t] = "di_lock"]
    /\ UNCHANGED <<config_vars, dm_vars, glock, mlog, is_asleep, motion_vars, last, lock, panel>>

CallOther(t) ==
    /\ pc[t] = "idle"
    /\ \E p \in {"sl_lock", "wk_lock", "cp_lock", "wui_wait"} :
          pc' = [pc EXCEPT ![t] = p]
    /\ UNCHANGED <<config_vars, dm_vars, glock, mlog, is_asleep, motion_vars, last, lock, local, panel>>

Acquire(t) ==
    /\ pc[t] \in LockPcs
    /\ can_acquire(t)
    /\ lock' = t
    /\ pc' = [pc EXCEPT ![t] = AfterLock[pc[t]]]
    /\ local' = [local EXCEPT ![t].a = asleep, ![t].c = current_image_file,
                              ![t].p = panel]
    /\ UNCHANGED <<config_vars, dm_vars, glock, mlog, is_asleep, motion_vars, last, panel>>

\* lines 96-104 and 121-137: the fast-path test, the frame, the first exit
DiTransform(t) ==
    /\ pc[t] = "di_transform"
    /\ IF is_solid_black(local[t].image)
       THEN /\ local' = [local EXCEPT ![t].frame = fast_frame(local[t].image),
                                      ![t].save = FALSE]
            /\ pc' = [pc EXCEPT ![t] = IF skip_draw(asleep, local[t].force)
                                       THEN "unlock" ELSE "di_push"]
       ELSE /\ local' = [local EXCEPT ![t].frame = render(local[t].image)]
            /\ pc' = [pc EXCEPT ![t] = "di_cache"]
    /\ UNCHANGED <<config_vars, dm_vars, glock, mlog, is_asleep, motion_vars, last, lock, panel>>

\* lines 139-148: the cache write and the second exit
DiCache(t) ==
    /\ pc[t] = "di_cache"
    /\ IF cache_write(asleep, local[t].save)
       THEN /\ current_image_file' = local[t].frame
            /\ local' = [local EXCEPT ![t].c = local[t].frame]
       ELSE UNCHANGED <<current_image_file, local>>
    /\ pc' = [pc EXCEPT ![t] = IF skip_draw(asleep, local[t].force)
                               THEN "unlock" ELSE "di_push"]
    /\ UNCHANGED <<config_vars, asleep, glock, mlog, is_asleep, motion_vars, last, lock, panel>>

\* lines 108-118 and 153-163: the push; a push that raises may or may not
\* have changed the panel
DiPush(t) ==
    /\ pc[t] = "di_push"
    /\ \E shown \in {panel} \cup (IF CanPush THEN {local[t].frame} ELSE {}) :
          /\ panel' = shown
          /\ local' = [local EXCEPT ![t].p = shown]
    /\ pc' = [pc EXCEPT ![t] = "unlock"]
    /\ UNCHANGED <<config_vars, dm_vars, glock, mlog, is_asleep, motion_vars, last, lock>>

SlBody(t) ==
    /\ pc[t] = "sl_body"
    /\ asleep' = TRUE
    /\ local' = [local EXCEPT ![t].a = TRUE]
    /\ pc' = [pc EXCEPT ![t] = "unlock"]
    /\ UNCHANGED <<config_vars, current_image_file, glock, mlog, is_asleep, motion_vars, last,
                   lock, panel>>

WkBody(t) ==
    /\ pc[t] = "wk_body"
    /\ asleep' = FALSE
    /\ local' = [local EXCEPT ![t].a = FALSE]
    /\ pc' = [pc EXCEPT ![t] = "unlock"]
    /\ UNCHANGED <<config_vars, current_image_file, glock, mlog, is_asleep, motion_vars, last,
                   lock, panel>>

\* mutant: clearing the panel wakes it
CpBody_wakes(t) ==
    /\ pc[t] = "cp_body"
    /\ asleep' = FALSE
    /\ panel' = NoImage
    /\ local' = [local EXCEPT ![t].p = NoImage, ![t].a = FALSE]
    /\ pc' = [pc EXCEPT ![t] = "unlock"]
    /\ UNCHANGED <<config_vars, current_image_file, glock, mlog, is_asleep, motion_vars,
                   last, lock>>

\* a clear that goes through leaves the panel blank
CpBody(t) ==
    /\ pc[t] = "cp_body"
    /\ \E shown \in {panel} \cup (IF display \cap {"clear", "Clear"} # {}
                                  THEN {NoImage} ELSE {}) :
          /\ panel' = shown
          /\ local' = [local EXCEPT ![t].p = shown]
    /\ pc' = [pc EXCEPT ![t] = "unlock"]
    /\ UNCHANGED <<config_vars, dm_vars, glock, mlog, is_asleep, motion_vars, last, lock>>

\* leaving "with self._lock:"
Release(t) ==
    /\ pc[t] = "unlock"
    /\ lock' = IF lock = t THEN "none" ELSE lock
    /\ pc' = [pc EXCEPT ![t] = local[t].ret]
    /\ local' = [local EXCEPT ![t] = NoLocal]
    /\ UNCHANGED <<config_vars, dm_vars, glock, mlog, is_asleep, motion_vars, last, panel>>

\* wait_until_idle returns: the driver reported ready or the delay elapsed
WuiDone(t) ==
    /\ pc[t] = "wui_wait"
    /\ pc' = [pc EXCEPT ![t] = local[t].ret]
    /\ local' = [local EXCEPT ![t] = NoLocal]
    /\ UNCHANGED <<config_vars, dm_vars, glock, mlog, is_asleep, motion_vars, last, lock, panel>>

InitConc ==
    /\ faulty = PanelFaults
    /\ display \in {{"display_image", "sleep", "wake", "clear", "wait_until_idle"},
                     {"draw", "ReadBusy"}}
    /\ resolution = PanelRes
    /\ orientation = "none"
    /\ inverted_image = FALSE
    /\ asleep = FALSE
    /\ current_image_file = NoImage
    /\ black_image_file = NoImage
    /\ InitListener
    /\ InitThreads
    /\ InitInjected
    /\ last = InitLast

NextConc ==
    \E t \in Threads :
        \/ CallDisplayImage(t)
        \/ CallOther(t)
        \/ Acquire(t)
        \/ DiTransform(t)
        \/ DiCache(t)
        \/ DiPush(t)
        \/ SlBody(t)
        \/ WkBody(t)
        \/ CpBody(t)
        \/ Release(t)
        \/ WuiDone(t)

SpecConc == InitConc /\ [][NextConc]_vars

\* ---- specification: button callbacks running concurrently ------------------
\* mutant: the listener's lock is not exclusive
gcan_acquire_always(t) == TRUE

\* GpioInputManager._lock, a threading.RLock
gcan_acquire(t) == glock \in {"none", t}

\* inside "with self._lock:" of _press_black
PressPcs == {"pb_draw", "pb_wait", "pb_sleep", "pb_set", "pb_unlock"}
\* the statements of the manager a press runs through
PressManagerPcs ==
    {"di_lock", "di_transform", "di_cache", "di_push", "unlock", "wui_wait",
     "sl_lock", "sl_body"}

\* a falling edge on the button: gpiozero calls _press_black
PressEdge(t) ==
    /\ pc[t] = "idle"
    /\ pc' = [pc EXCEPT ![t] = "pb_lock"]
    /\ UNCHANGED <<config_vars, dm_vars, glock, mlog, is_asleep, motion_vars, last,
                   lock, local, panel>>

PressAcquire(t) ==
    /\ pc[t] = "pb_lock"
    /\ gcan_acquire(t)
    /\ glock' = t
    /\ pc' = [pc EXCEPT ![t] = "pb_draw"]
    /\ UNCHANGED <<config_vars, dm_vars, mlog, is_asleep, motion_vars, last,
                   lock, local, panel>>

\* lines 81-99: the blanking image, then display_image(img, save_to_cache=False)
PressDraw(t) ==
    /\ pc[t] = "pb_draw"
    /\ local' = [local EXCEPT ![t] = [NoLocal EXCEPT !.image = blanking_image,
                                                     !.save = FALSE,
                                                     !.ret = "pb_wait"]]
    /\ pc' = [pc EXCEPT ![t] = "di_lock"]
    /\ UNCHANGED <<config_vars, dm_vars, glock, mlog, is_asleep, motion_vars, last,
                   lock, panel>>

\* lines 102-105: wait_until_idle()
PressWait(t) ==
    /\ pc[t] = "pb_wait"
    /\ local' = [local EXCEPT ![t].ret = "pb_sleep"]
    /\ pc' = [pc EXCEPT ![t] = "wui_wait"]
    /\ UNCHANGED <<config_vars, dm_vars, glock, mlog, is_asleep, motion_vars, last,
                   lock, panel>>

\* lines 107-110: sleep()
PressSleep(t) ==
    /\ pc[t] = "pb_sleep"
    /\ local' = [local EXCEPT ![t].ret = "pb_set"]
    /\ pc' = [pc EXCEPT ![t] = "sl_lock"]
    /\ UNCHANGED <<config_vars, dm_vars, glock, mlog, is_asleep, motion_vars, last,
                   lock, panel>>

\* line 111
PressSet(t) ==
    /\ pc[t] = "pb_set"
    /\ is_asleep' = TRUE
    /\ pc' = [pc EXCEPT ![t] = "pb_unlock"]
    /\ UNCHANGED <<config_vars, dm_vars, glock, mlog, motion_vars, last,
                   lock, local, panel>>

\* leaving "with self._lock:" of _press_black
PressRelease(t) ==
    /\ pc[t] = "pb_unlock"
    /\ glock' = IF glock = t THEN "none" ELSE glock
    /\ pc' = [pc EXCEPT ![t] = "idle"]
    /\ UNCHANGED <<config_vars, dm_vars, mlog, is_asleep, motion_vars, last,
                   lock, local, panel>>

InitPress ==
    /\ faulty = PanelFaults
    /\ display \in {{"display_image", "sleep", "wake", "clear", "wait_until_idle"},
                     {"draw", "ReadBusy"}}
    /\ resolution = PanelRes
    /\ orientation = "none"
    /\ inverted_image = FALSE
    /\ asleep = FALSE
    /\ current_image_file = NoImage
    /\ black_image_file \in BlackFiles(resolution, orientation)
    /\ InitListener
    /\ InitThreads
    /\ InitInjected
    /\ last = InitLast

NextPress ==
    \E t \in Buttons :
        \/ PressEdge(t)
        \/ PressAcquire(t)
        \/ PressDraw(t)
        \/ PressWait(t)
        \/ PressSleep(t)
        \/ PressSet(t)
        \/ PressRelease(t)
        \/ Acquire(t)
        \/ DiTransform(t)
        \/ DiCache(t)
        \/ DiPush(t)
        \/ SlBody(t)
        \/ Release(t)
        \/ WuiDone(t)

SpecPress == InitPress /\ [][NextPress]_vars

\* ---- specification: motion callbacks running concurrently ------------------
\* mutant: no second cooldown check once the lock is held
locked_check_skipped(t, ts, cooldown) == FALSE

\* lines 137-139: the cooldown check repeated under the lock
locked_check(t, ts, cooldown) == in_cooldown(t, ts, cooldown)

\* the PIR sensor fires: gpiozero calls _on_motion
MotionEdge(t) ==
    /\ pc[t] = "idle"
    /\ mlog.events < MaxEvents
    /\ mlog' = [mlog EXCEPT !.events = @ + 1]
    /\ pc' = [pc EXCEPT ![t] = "mo_gate"]
    /\ UNCHANGED <<config_vars, dm_vars, glock, is_asleep, motion_vars, last,
                   lock, local, panel>>

\* lines 118-130
MoGate(t) ==
    /\ pc[t] = "mo_gate"
    /\ pc' = [pc EXCEPT ![t] = IF motion_gates(ai_motion_enabled, asleep,
                                               is_asleep, plugin_id)
                               THEN "mo_check1" ELSE "idle"]
    /\ UNCHANGED <<config_vars, dm_vars, glock, mlog, is_asleep, motion_vars, last,
                   lock, local, panel>>

\* lines 132-134: the check without the lock
MoCheck1(t) ==
    /\ pc[t] = "mo_check1"
    /\ pc' = [pc EXCEPT ![t] = IF in_cooldown(now, last_motion_ts, motion_cooldown)
                               THEN "idle" ELSE "mo_lock"]
    /\ UNCHANGED <<config_vars, dm_vars, glock, mlog, is_asleep, motion_vars, last,
                   lock, local, panel>>

MoAcquire(t) ==
    /\ pc[t] = "mo_lock"
    /\ gcan_acquire(t)
    /\ glock' = t
    /\ pc' = [pc EXCEPT ![t] = "mo_check2"]
    /\ UNCHANGED <<config_vars, dm_vars, mlog, is_asleep, motion_vars, last,
                   lock, local, panel>>

\* lines 137-139: the clock is read again and the check repeated
MoCheck2(t) ==
    /\ pc[t] = "mo_check2"
    /\ local' = [local EXCEPT ![t].t = now]
    /\ pc' = [pc EXCEPT ![t] = IF locked_check(now, last_motion_ts, motion_cooldown)
                               THEN "mo_release" ELSE "mo_commit"]
    /\ UNCHANGED <<config_vars, dm_vars, glock, mlog, is_asleep, motion_vars, last,
                   lock, panel>>

\* line 140
MoCommit(t) ==
    /\ pc[t] = "mo_commit"
    /\ last_motion_ts' = local[t].t
    /\ accepted_ts' = local[t].t
    /\ mlog' = [mlog EXCEPT !.accepts = Append(@, local[t].t)]
    /\ local' = [local EXCEPT ![t].ok = TRUE]
    /\ pc' = [pc EXCEPT ![t] = "mo_release"]
    /\ UNCHANGED <<config_vars, dm_vars, glock, is_asleep, plugin_id, now,
                   accepted_raised, last, lock, panel>>

\* mutant: the callback returns without giving the listener's lock back
MoRelease_leak(t) ==
    /\ pc[t] = "mo_release"
    /\ glock' = glock
    /\ pc' = [pc EXCEPT ![t] = IF local[t].ok THEN "mo_trigger" ELSE "idle"]
    /\ local' = [local EXCEPT ![t] = IF local[t].ok THEN local[t] ELSE NoLocal]
    /\ UNCHANGED <<config_vars, dm_vars, mlog, is_asleep, motion_vars, last,
                   lock, panel>>

\* leaving "with self._lock:" of _on_motion, by the return or at its end
MoRelease(t) ==
    /\ pc[t] = "mo_release"
    /\ glock' = IF glock = t THEN "none" ELSE glock
    /\ pc' = [pc EXCEPT ![t] = IF local[t].ok THEN "mo_trigger" ELSE "idle"]
    /\ local' = [local EXCEPT ![t] = IF local[t].ok THEN local[t] ELSE NoLocal]
    /\ UNCHANGED <<config_vars, dm_vars, mlog, is_asleep, motion_vars, last,
                   lock, panel>>

\* lines 143-147: manual_update, whose exception is caught
MoTrigger(t) ==
    /\ pc[t] = "mo_trigger"
    /\ \E trigger_raises \in BOOLEAN : accepted_raised' = trigger_raises
    /\ mlog' = [mlog EXCEPT !.triggers = @ + 1]
    /\ local' = [local EXCEPT ![t] = NoLocal]
    /\ pc' = [pc EXCEPT ![t] = "idle"]
    /\ UNCHANGED <<config_vars, dm_vars, glock, is_asleep, last_motion_ts, plugin_id,
                   now, accepted_ts, last, lock, panel>>

InitSense ==
    /\ display = {"display_image", "sleep", "wake"}
    /\ faulty = PanelFaults
    /\ resolution = PanelRes
    /\ orientation = "none"
    /\ inverted_image = FALSE
    /\ asleep = FALSE
    /\ current_image_file = NoImage
    /\ black_image_file = NoImage
    /\ is_asleep = FALSE
    /\ ai_motion_enabled = TRUE
    /\ motion_cooldown \in 1..MaxCooldown
    /\ last_motion_ts = 0
    /\ plugin_id \in {"none", "ai_text"}
    /\ now = StartTime
    /\ accepted_ts = -1
    /\ accepted_raised = FALSE
    /\ InitThreads
    /\ InitInjected
    /\ last = InitLast

NextSense ==
    \/ Tick
    \/ \E t \in Sensors :
          \/ MotionEdge(t)
          \/ MoGate(t)
          \/ MoCheck1(t)
          \/ MoAcquire(t)
          \/ MoCheck2(t)
          \/ MoCommit(t)
          \/ MoRelease(t)
          \/ MoTrigger(t)

SpecSense == InitSense /\ [][NextSense]_vars

\* ---- specification: buttons, sensors and the scheduler together ------------
\* A run of finitely many events: at most MaxEvents callbacks and scheduler
\* calls are started, so that every behaviour in which the threads keep
\* being scheduled either brings them all back to idle or leaves one stuck.

\* a falling edge on the button, counted
PressStart(t) ==
    /\ pc[t] = "idle"
    /\ mlog.events < MaxEvents
    /\ mlog' = [mlog EXCEPT !.events = @ + 1]
    /\ pc' = [pc EXCEPT ![t] = "pb_lock"]
    /\ UNCHANGED <<config_vars, dm_vars, glock, is_asleep, motion_vars, last,
                   lock, local, panel>>

\* the refresh scheduler hands a rendered frame to display_image, counted
SchedulerCall(t) ==
    /\ pc[t] = "idle"
    /\ mlog.events < MaxEvents
    /\ mlog' = [mlog EXCEPT !.events = @ + 1]
    /\ \E image \in ConcImages :
          local' = [local EXCEPT ![t] = [NoLocal EXCEPT !.image = image,
                                                        !.save = TRUE]]
    /\ pc' = [pc EXCEPT ![t] = "di_lock"]
    /\ UNCHANGED <<config_vars, dm_vars, glock, is_asleep, motion_vars, last,
                   lock, panel>>

\* the statements of the manager, run by whichever thread called into it
ManagerStep(t) ==
    \/ Acquire(t)
    \/ DiTransform(t)
    \/ DiCache(t)
    \/ DiPush(t)
    \/ SlBody(t)
    \/ Release(t)
    \/ WuiDone(t)

\* the statements of _press_black
PressStep(t) ==
    \/ PressAcquire(t)
    \/ PressDraw(t)
    \/ PressWait(t)
    \/ PressSleep(t)
    \/ PressSet(t)
    \/ PressRelease(t)

\* the statements of _on_motion
MotionStep(t) ==
    \/ MoGate(t)
    \/ MoCheck1(t)
    \/ MoAcquire(t)
    \/ MoCheck2(t)
    \/ MoCommit(t)
    \/ MoRelease(t)
    \/ MoTrigger(t)

\* one statement of a thread that is inside a callback or a call
Run(t) ==
    \/ ManagerStep(t)
    \/ t \in Buttons /\ PressStep(t)
    \/ t \in Sensors /\ MotionStep(t)

InitAll ==
    /\ display = {"display_image", "sleep", "wait_until_idle"}
    /\ faulty = PanelFaults
    /\ resolution = PanelRes
    /\ orientation = "none"
    /\ inverted_image = FALSE
    /\ asleep = FALSE
    /\ current_image_file = NoImage
    /\ black_image_file = NoImage
    /\ is_asleep = FALSE
    /\ ai_motion_enabled = TRUE
    /\ motion_cooldown = 1
    /\ last_motion_ts = 0
    /\ plugin_id = "ai_text"
    /\ now = StartTime
    /\ accepted_ts = -1
    /\ accepted_raised = FALSE
    /\ InitThreads
    /\ InitInjected
    /\ last = InitLast

\* two button callbacks, one motion callback and the scheduler's thread
Callers == Buttons \cup {"m1", "t1"}

NextAll ==
    \/ \E t \in Buttons : PressStart(t)
    \/ \E t \in Sensors \cap Callers : MotionEdge(t)
    \/ \E t \in Threads \cap Callers : SchedulerCall(t)
    \/ \E t \in Callers : Run(t)

SpecAll == InitAll /\ [][NextAll]_vars

\* every thread inside a callback or a call keeps being scheduled, and each
\* driver call returns
SpecAllFair == SpecAll /\ \A t \in Callers : WF_vars(Run(t))

\* ---- properties of the manager and the button ------------------------------
\* positions in a call log of the calls that hand a frame to the hardware
PushCalls(calls) == {i \in DOMAIN calls : calls[i].m \in PushMethods \cup {"refresh"}}
WaitCalls(calls) ==
    {i \in DOMAIN calls : calls[i].m \in {"wait_until_idle", "ReadBusy", "delay"}}
SleepCalls(calls) == {i \in DOMAIN calls : calls[i].m = "sleep"}

\* C1: a display_image call made while the manager is asleep with
\* force_draw false (a direct call, or the one a button press makes) calls no
\* push capability of the driver, whatever the image and save_to_cache.
C1_NoPushAsleep ==
    (last.op \in {"display_image", "press"} /\ last.asleep0 /\ ~last.force)
        => PushCalls(last.calls) = {}

C1_Witness ==
    /\ last.op = "display_image" /\ last.asleep0 /\ ~last.force /\ last.save
    /\ ~is_solid_black(last.image)
    /\ CanPush

\* C2: a display_image call whose image is detected as solid black leaves
\* the cached frame as it was, whatever save_to_cache, force_draw and the
\* power state.
C2_BlackNeverCached ==
    [][(last'.op = "display_image" /\ is_solid_black(last'.image))
        => current_image_file' = current_image_file]_vars

C2_Witness ==
    /\ last.op = "display_image" /\ is_solid_black(last.image)
    /\ last.save /\ ~last.asleep0
    /\ PushCalls(last.calls) # {}

\* C3: a display_image call that runs while the manager is asleep leaves the
\* cached frame as it was, also with save_to_cache and force_draw both true,
\* when the frame is pushed to the driver.
C3_AsleepNeverCached ==
    [][(last'.op = "display_image" /\ asleep)
        => current_image_file' = current_image_file]_vars

C3_Witness ==
    /\ last.op = "display_image" /\ last.asleep0 /\ last.save /\ last.force
    /\ ~is_solid_black(last.image)
    /\ PushCalls(last.calls) # {}
    /\ current_image_file = NoImage

\* C4: sleep() ends asleep and wake() ends awake, from either power state.
C4_SleepWake ==
    /\ last.op = "sleep" => asleep
    /\ last.op = "wake" => ~asleep

C4_Witness == last.op = "sleep" /\ last.asleep0 /\ asleep

\* C6: a button press handled while the manager is awake calls
\* display_image with the blanking image and save_to_cache false, then
\* wait_until_idle, then sleep, the driver seeing the push before the idle
\* wait and the idle wait before its sleep call; the image is solid black
\* whenever black.png is unreadable or holds a solid-black image; the press
\* ends with the manager and the listener both asleep.
C6_PressAwake ==
    (last.op = "press" /\ ~last.asleep0) =>
        /\ last.mcalls = <<"display_image", "wait_until_idle", "sleep">>
        /\ last.image = blanking_image /\ ~last.save /\ ~last.force
        /\ (black_image_file = NoImage \/ black_image_file.px = "black")
              => is_solid_black(last.image)
        /\ CanPush => PushCalls(last.calls) # {}
        /\ WaitCalls(last.calls) # {}
        /\ \A i \in PushCalls(last.calls), j \in WaitCalls(last.calls) : i < j
        /\ \A i \in WaitCalls(last.calls), j \in SleepCalls(last.calls) : i < j
        /\ asleep /\ is_asleep

C6_Witness ==
    /\ last.op = "press" /\ ~last.asleep0
    /\ PushCalls(last.calls) # {} /\ SleepCalls(last.calls) # {}
    /\ current_image_file # NoImage

C5_Cooldown ==
    (last.op = "motion" /\ last.gates) =>
        IF last.ts0 = -1 \/ last.t - last.ts0 >= motion_cooldown
        THEN last.updates = 1 /\ accepted_ts >= last.t
        ELSE last.updates = 0 /\ accepted_ts = last.ts0

C5_Witness ==
    /\ last.op = "motion" /\ last.gates
    /\ motion_cooldown > 0
    /\ last.ts0 # -1 /\ last.t - last.ts0 = motion_cooldown
    /\ last.updates = 1

C5_WitnessRefused ==
    /\ last.op = "motion" /\ last.gates
    /\ last.ts0 # -1 /\ last.t - last.ts0 < motion_cooldown
    /\ last.updates = 0

\* ---- properties of the rendered frame --------------------------------------
\* C10: every frame display_image hands to a push capability of the driver,
\* on the fast path and on the normal path, has exactly the configured
\* resolution, whatever the size of the input image, the orientation and the
\* inverted flag.
C10_FrameIsPanelSize ==
    \A i \in DOMAIN last.calls :
        last.calls[i].m \in PushMethods => size(last.calls[i].frame) = get_resolution

C10_Witness ==
    /\ last.op = "display_image"
    /\ is_solid_black(last.image)
    /\ size(last.image) # get_resolution
    /\ orientation = "vertical" /\ inverted_image
    /\ \E i \in DOMAIN last.calls : last.calls[i].m \in PushMethods

C10_WitnessNormal ==
    /\ last.op = "display_image"
    /\ ~is_solid_black(last.image)
    /\ size(last.image) # get_resolution
    /\ orientation = "vertical" /\ inverted_image
    /\ \E i \in DOMAIN last.calls : last.calls[i].m \in PushMethods

\* ---- properties of the locking ----------------------------------------------
\* C8: while a thread is inside the critical section of display_image (or of
\* sleep, wake, clear_panel) it holds the lock, no other thread is inside
\* one, and the power state, the cache and the panel are what this thread
\* saw on entry or wrote itself: no step of another call falls in between.
C8_Serialized ==
    \A t \in Threads :
        pc[t] \in InLock =>
            /\ lock = t
            /\ \A u \in Threads \ {t} : pc[u] \notin InLock
            /\ asleep = local[t].a
            /\ current_image_file = local[t].c
            /\ panel = local[t].p

C8_Witness ==
    /\ pc["t1"] = "di_push" /\ pc["t2"] = "di_lock"
    /\ local["t1"].save /\ current_image_file = local["t1"].frame
    /\ local["t2"].image.px = "mixed"

\* C9 as claimed: a thread at a statement that calls into the driver, the
\* idle wait included, holds the manager's lock, and no other thread is at
\* such a statement.
C9_DriverUnderLock ==
    \A t \in Threads :
        pc[t] \in DriverPcs =>
            /\ lock = t
            /\ \A u \in Threads \ {t} : pc[u] \notin DriverPcs

\* ---- properties under driver failures --------------------------------------
ManagerOps == {"display_image", "sleep", "wake", "clear_panel"}

\* C11 as claimed: when a driver call of display_image, sleep, wake or
\* clear_panel raises, no exception leaves the manager and the power state
\* and the cached frame are the ones from before the operation.
C11_FailureChangesNothing ==
    (last.op \in ManagerOps /\ last.bad # "none") =>
        /\ ~last.raised
        /\ asleep = last.asleep0
        /\ current_image_file = last.cache0

\* C11 amended: when a driver call of display_image, sleep, wake or
\* clear_panel raises, no exception leaves the manager, and the power state
\* and the cached frame are what the operation had made them before it
\* called the driver: asleep after sleep(), awake after wake(), the rendered
\* frame in the cache after a caching display_image, both untouched after
\* clear_panel.
C11_FailureKeepsWrittenState ==
    (last.op \in ManagerOps /\ last.bad # "none") =>
        /\ ~last.raised
        /\ asleep = CASE last.op = "sleep" -> TRUE
                      [] last.op = "wake" -> FALSE
                      [] OTHER -> last.asleep0
        /\ current_image_file =
               IF /\ last.op = "display_image"
                  /\ ~is_solid_black(last.image)
                  /\ last.save /\ ~last.asleep0
               THEN render(last.image)
               ELSE last.cache0

C11_Witness ==
    /\ last.op = "display_image" /\ last.bad = "display"
    /\ current_image_file # last.cache0
    /\ current_image_file = render(last.image)

\* C12: when the driver's sleep or wake raises, sleep() still ends asleep
\* and wake() still ends awake, and no exception reaches the caller.
C12_TransitionCompletes ==
    (last.op \in {"sleep", "wake"} /\ last.bad = last.op) =>
        /\ asleep = (last.op = "sleep")
        /\ ~last.raised

C12_Witness ==
    /\ last.op = "wake" /\ last.bad = "wake"
    /\ last.asleep0 /\ ~asleep
    /\ Called(last.calls) = {"wake"}

\* ---- properties of the motion gates and the trigger -------------------------
\* C13: a motion event calls manual_update only if the ai_quote_on_motion
\* flag is on, the manager is awake, the listener's own tracked state is not
\* asleep and the plugin on screen is "ai_text"; when any of these fails it
\* makes no call and leaves _last_motion_ts as it was.
C13_GatedTrigger ==
    last.op = "motion" =>
        LET open == /\ ai_motion_enabled
                    /\ ~last.asleep0
                    /\ ~is_asleep
                    /\ last.pid = "ai_text"
        IN  /\ last.updates > 0 => open
            /\ ~open => (last.updates = 0 /\ last_motion_ts = last.lts0)

\* an event outside the cooldown that only the listener's tracked state stops
C13_Witness ==
    /\ last.op = "motion" /\ last.updates = 0
    /\ ai_motion_enabled /\ ~last.asleep0 /\ last.pid = "ai_text"
    /\ is_asleep
    /\ last.t - last.lts0 >= motion_cooldown

C13_WitnessAccepted ==
    /\ last.op = "motion" /\ last.updates = 1
    /\ ai_motion_enabled /\ ~last.asleep0 /\ ~is_asleep /\ last.pid = "ai_text"

\* C15: when manual_update raises, _last_motion_ts stays at the time the
\* accepted event committed, no exception leaves the callback, and the next
\* event that arrives inside the cooldown makes no manual_update call.
C15_TriggerFailureKeepsCooldown ==
    last.op = "motion" =>
        /\ ~last.raised
        /\ last.traised =>
               /\ last.updates = 1
               /\ last_motion_ts = accepted_ts
               /\ accepted_ts >= last.t
        /\ (last.ts0_raised /\ last.t - last.ts0 < motion_cooldown) =>
               /\ last.updates = 0
               /\ last_motion_ts = last.ts0

\* an event that passes the gates, refused inside the cooldown of an event
\* whose manual_update call raised
C15_Witness ==
    /\ last.op = "motion" /\ last.gates
    /\ last.ts0_raised /\ last.ts0 >= StartTime
    /\ last.t - last.ts0 < motion_cooldown
    /\ last.updates = 0

C15_WitnessRaised ==
    /\ last.op = "motion" /\ last.traised /\ last_motion_ts = now

\* ---- properties of the push capability --------------------------------------
PushIdx(calls) == {i \in DOMAIN calls : calls[i].m \in PushMethods}

\* C18: a display_image call that pushes uses exactly one capability, the
\* first the driver exposes of display_image, display, draw; draw is followed
\* by refresh (when the driver has it and draw did not raise), and refresh
\* is called after nothing else.
C18_OneCapability ==
    last.op \in {"display_image", "press"} =>
        /\ Cardinality(PushIdx(last.calls)) <= 1
        /\ (last.op = "display_image" /\ ~(last.asleep0 /\ ~last.force)
                /\ display \cap PushMethods # {})
              => Cardinality(PushIdx(last.calls)) = 1
        /\ \A i \in PushIdx(last.calls) :
              LET m == last.calls[i].m
              IN  /\ m \in display
                  /\ m = "display" => "display_image" \notin display
                  /\ m = "draw" => display \cap {"display_image", "display"} = {}
                  /\ (m = "draw" /\ "refresh" \in display /\ last.bad # "draw")
                        => /\ i + 1 \in DOMAIN last.calls
                           /\ last.calls[i + 1].m = "refresh"
        /\ \A i \in DOMAIN last.calls :
              last.calls[i].m = "refresh" =>
                  i > 1 /\ last.calls[i - 1].m = "draw"

\* a driver with all three capabilities is pushed to through display_image
C18_Witness ==
    /\ last.op = "display_image"
    /\ PushMethods \subseteq display /\ "refresh" \in display
    /\ Called(last.calls) = {"display_image"}

C18_WitnessDraw ==
    /\ last.op = "display_image" /\ last.bad = "none"
    /\ Called(last.calls) = {"draw", "refresh"}

\* C19 as claimed: with a driver that exposes none of display_image,
\* display, draw, a display_image call that gets as far as the push ends in
\* an exception.
C19_NoCapabilityRaises ==
    (/\ last.op = "display_image"
     /\ display \cap PushMethods = {}
     /\ ~(last.asleep0 /\ ~last.force))
        => last.raised

\* C20 as claimed: the cached frame changes only in a display_image call
\* that is not solid black, awake, save_to_cache = true and whose push went
\* through; a call whose push raises leaves the cache as it was.
C20_CachedOnlyAfterPush ==
    /\ current_image_file # last.cache0 =>
           /\ last.op = "display_image"
           /\ ~is_solid_black(last.image) /\ ~last.asleep0 /\ last.save
           /\ PushIdx(last.calls) # {} /\ last.bad \notin Called(last.calls)
    /\ (last.op = "display_image" /\ last.bad \in Called(last.calls))
           => current_image_file = last.cache0

\* C20 amended: the cached frame changes only in a display_image call that
\* is not solid black, awake and save_to_cache = true, and every such call
\* writes the rendered frame whatever happens to the push afterwards: a
\* call whose push raises leaves the new frame in the cache.
C20_CachedBeforePush ==
    /\ last.op # "motion" =>
           current_image_file =
               IF /\ last.op = "display_image"
                  /\ ~is_solid_black(last.image) /\ ~last.asleep0 /\ last.save
               THEN render(last.image)
               ELSE last.cache0
    /\ current_image_file # last.cache0 =>
           /\ last.op = "display_image"
           /\ ~is_solid_black(last.image) /\ ~last.asleep0 /\ last.save

\* the push raised and the cache holds the new frame
C20_Witness ==
    /\ last.op = "display_image" /\ last.bad = "display_image"
    /\ last.cache0 = NoImage
    /\ current_image_file = render(last.image)
    /\ current_image_file # last.cache0

\* ---- properties of the construction ------------------------------------------
\* the identifier starts with "epd" and has "in" somewhere after it
IsEpdIn(s) ==
    /\ Len(s) >= 5
    /\ SubSeq(s, 1, 3) = <<"e", "p", "d">>
    /\ \E i \in 4..(Len(s) - 1) : s[i] = "i" /\ s[i + 1] = "n"

\* C17: built without an injected driver, the manager gets the mock driver
\* for "mock", the Inky driver for "inky" (also when display_type is unset)
\* and the Waveshare driver for an identifier matching "epd*in*"; when that
\* class is not available, or the identifier is none of these,
\* construction ends in an error and there is no manager.
C17_Construction ==
    (manager.state # "none" /\ ~epd_display) =>
        LET dt == IF display_type = Unset THEN TypeInky ELSE display_type
            family == CASE dt = TypeMock -> "MockDisplay"
                        [] dt = TypeInky -> "InkyDisplay"
                        [] dt \notin {TypeMock, TypeInky} /\ IsEpdIn(dt) -> "WaveshareDisplay"
                        [] OTHER -> "none"
        IN  IF family # "none" /\ (family = "MockDisplay" \/ family \in bindings)
            THEN manager.state = "ok" /\ manager.class = family
            ELSE manager.state = "error" /\ manager.class = "none"
                 /\ manager.error # "none"

C17_Witness ==
    /\ ~epd_display /\ display_type = <<"e", "p", "d", "7", "i", "n", "5">>
    /\ "WaveshareDisplay" \notin bindings
    /\ manager.state = "error" /\ manager.error = "WaveshareDisplay not available"

C17_WitnessBuilt ==
    /\ ~epd_display /\ display_type = <<"e", "p", "d", "i", "n">>
    /\ manager.state = "ok" /\ manager.class = "WaveshareDisplay"

\* ---- properties of the listener's lock --------------------------------------
\* the threads inside "with self._lock:" of a motion callback
InMotionLock == {t \in Sensors : pc[t] \in {"mo_check2", "mo_commit", "mo_release"}}
\* the callbacks that committed the timestamp and have not called
\* manual_update yet
TriggerDue == {t \in Sensors : pc[t] \in {"mo_release", "mo_trigger"} /\ local[t].ok}

\* C14: however the motion callbacks interleave, the times they committed
\* are pairwise at least motion_cooldown apart, every callback that
\* committed makes exactly one manual_update call, and the locked check and
\* the timestamp write are done by one thread at a time under the
\* listener's lock.
C14_AcceptedApart ==
    /\ \A i, j \in DOMAIN mlog.accepts :
          i < j => mlog.accepts[j] - mlog.accepts[i] >= motion_cooldown
    /\ mlog.triggers + Cardinality(TriggerDue) = Len(mlog.accepts)
    /\ \A t \in InMotionLock : glock = t
    /\ Cardinality(InMotionLock) <= 1

\* a callback that passed the check without the lock is refused by the
\* check under it, another callback having committed in between
C14_Witness ==
    /\ pc["m2"] = "mo_release" /\ ~local["m2"].ok
    /\ Len(mlog.accepts) >= 1
    /\ local["m2"].t - last_motion_ts < motion_cooldown

C14_WitnessTwo ==
    /\ Len(mlog.accepts) = 2 /\ mlog.triggers = 2

\* C16: while one button callback is between taking the listener's lock
\* and releasing it (blanking draw, idle wait, sleep, tracked-state
\* update), it holds the lock and the other callback has not started its
\* blanking draw: it is idle or waiting for the lock.
C16_PressesSerialized ==
    \A t \in Buttons :
        pc[t] \in PressPcs \cup PressManagerPcs =>
            /\ glock = t
            /\ \A u \in Buttons \ {t} : pc[u] \in {"idle", "pb_lock"}

\* the first press is past its sleep() and about to set _is_asleep while
\* the second waits for the lock
C16_Witness ==
    /\ pc["b1"] = "pb_set" /\ asleep /\ ~is_asleep
    /\ pc["b2"] = "pb_lock"

\* ---- properties of the power state -------------------------------------------
\* C21: the power state starts awake; a step changes it only when it is the
\* body of sleep() (to asleep) or of wake() (to awake), run by a thread that
\* holds the manager's lock; no step of display_image, clear_panel or
\* wait_until_idle changes it, whether the driver call went through or not.
C21_PowerStateFrame ==
    /\ ~asleep
    /\ [][asleep' # asleep =>
            \E t \in Threads :
                /\ lock = t
                /\ pc[t] \in {"sl_body", "wk_body"}
                /\ pc'[t] = "unlock"
                /\ asleep' = (pc[t] = "sl_body")]_vars

\* a forced display_image pushed its frame while asleep and left the panel
\* asleep
C21_Witness ==
    /\ pc["t1"] = "unlock" /\ local["t1"].force
    /\ local["t1"].frame # NoImage /\ panel = local["t1"].frame
    /\ asleep /\ local["t1"].a

\* ---- properties of the push decision ------------------------------------------
\* C22: a display_image call made with force_draw = true, or while awake,
\* makes exactly one push to a driver that has a push capability, handing
\* over the frame it returns, on the fast path and on the normal path alike;
\* a call made asleep without force_draw makes none.
C22_PushIffAwakeOrForced ==
    (last.op = "display_image" /\ display \cap PushMethods # {}) =>
        IF last.force \/ ~last.asleep0
        THEN /\ Cardinality(PushIdx(last.calls)) = 1
             /\ \A i \in PushIdx(last.calls) : last.calls[i].frame = last.ret
        ELSE last.calls = << >>

\* a forced solid-black frame is pushed while asleep
C22_Witness ==
    /\ last.op = "display_image" /\ is_solid_black(last.image)
    /\ last.asleep0 /\ last.force
    /\ Cardinality(PushIdx(last.calls)) = 1

C22_WitnessNormal ==
    /\ last.op = "display_image" /\ ~is_solid_black(last.image)
    /\ last.asleep0 /\ last.force
    /\ Cardinality(PushIdx(last.calls)) = 1

\* ---- properties of the button and the cache ------------------------------------
\* C23: a button press leaves the cached frame as it was, awake or asleep,
\* and also when black.png is not solid black and its draw takes the normal
\* path.
C23_PressKeepsCache ==
    last.op = "press" => current_image_file = last.cache0

\* black.png is not solid black: pressed while awake it goes through the
\* normal path to the driver, over a cache that holds a frame
C23_Witness ==
    /\ last.op = "press" /\ ~last.asleep0
    /\ ~is_solid_black(last.image)
    /\ PushIdx(last.calls) # {}
    /\ last.cache0 # NoImage /\ current_image_file = last.cache0

C23_WitnessAsleep ==
    /\ last.op = "press" /\ last.asleep0
    /\ ~is_solid_black(last.image)
    /\ last.cache0 # NoImage /\ current_image_file = last.cache0

\* ---- properties of the callbacks under failure ----------------------------------
\* C24: no exception leaves a button or a motion callback, whether
\* display_image, wait_until_idle, sleep, a configuration read or
\* manual_update raised inside it, and the listener goes on handling
\* events: a press in which neither the image nor display_image failed runs
\* to its end, and a motion event that passes the gates outside the
\* cooldown calls manual_update, whatever raised in the callback before.
C24_CallbacksContain ==
    last.op \in {"press", "motion"} =>
        /\ ~last.raised
        /\ (last.op = "press" /\ last.bad \notin {"get_resolution", "dm.display_image"})
              => (is_asleep /\ last.mcalls = <<"display_image", "wait_until_idle", "sleep">>)
        /\ (last.op = "motion" /\ last.bad = "get_refresh_info") => last.updates = 0
        /\ (last.op = "motion" /\ last.gates
                /\ ~in_cooldown(last.t, last.lts0, motion_cooldown))
              => last.updates = 1

\* display_image raised into one press; the next press runs to its end
C24_Witness ==
    /\ last.op = "press" /\ last.bad0 = "dm.display_image" /\ last.bad = "none"
    /\ is_asleep /\ last.mcalls = <<"display_image", "wait_until_idle", "sleep">>

C24_WitnessFailed ==
    /\ last.op = "press" /\ last.bad = "dm.display_image"
    /\ ~is_asleep /\ ~asleep /\ last.mcalls = <<"display_image">>

C24_WitnessMotion ==
    /\ last.op = "motion" /\ last.bad0 = "get_refresh_info" /\ last.updates = 1

\* ---- properties of the listener's tracked state ---------------------------------
\* C25: _is_asleep never goes back from asleep to not asleep, whatever
\* presses, motion events and wake() calls follow; it is asleep after every
\* press that ran to its end; and a motion event handled while it is asleep
\* makes no manual_update call, also when the manager has been woken.
C25_AsleepLatch ==
    /\ [](last.op = "press" /\ last.mcalls = <<"display_image", "wait_until_idle", "sleep">>
            => is_asleep)
    /\ []((last.op = "motion" /\ is_asleep) => last.updates = 0)
    /\ [][is_asleep => is_asleep']_vars

\* an event had been accepted, the button was pressed, the manager woken:
\* the next event outside the cooldown is refused
C25_Witness ==
    /\ last.op = "motion" /\ is_asleep /\ ~last.asleep0
    /\ last.ts0 >= StartTime
    /\ ~in_cooldown(last.t, last.ts0, motion_cooldown)
    /\ last.updates = 0


\* ---- properties of the callbacks and the scheduler running together --------
\* waiting at a "with self._lock:" that another thread holds
Blocked(t) ==
    \/ pc[t] \in LockPcs /\ ~can_acquire(t)
    \/ pc[t] \in {"pb_lock", "mo_lock"} /\ ~gcan_acquire(t)

\* C26: with button callbacks, motion callbacks and scheduler display_image
\* calls running concurrently, no thread ever waits for the listener's lock
\* while it holds the manager's lock (the manager's lock is only taken after
\* the listener's, never before), manual_update is called by a thread that
\* holds neither lock, in no state is every thread that is inside a callback
\* or a call waiting for a lock, and, when every thread keeps being scheduled
\* and each driver call returns, every button press that started comes to
\* its end.
C26_NoDeadlock ==
    /\ [](\A t \in AllThreads :
            /\ pc[t] \in {"pb_lock", "mo_lock"} => lock # t
            /\ pc[t] = "mo_trigger" => lock # t /\ glock # t
            /\ lock = t /\ t \notin Buttons => glock # t)
    /\ []((\E t \in AllThreads : pc[t] # "idle")
            => \E t \in AllThreads : pc[t] # "idle" /\ ~Blocked(t))
    /\ \A b \in Buttons : (pc[b] = "pb_lock") ~> (pc[b] = "idle")

\* a press holds the listener's lock and waits for the manager's lock, which
\* a scheduler thread holds, while a motion callback waits for the listener's
C26_Witness ==
    \E b \in Buttons, t \in Threads, m \in Sensors :
        /\ glock = b /\ pc[b] \in LockPcs
        /\ lock = t /\ pc[t] \in InLock
        /\ pc[m] = "mo_lock"

\* a motion callback calls manual_update while a press holds both locks
C26_WitnessTrigger ==
    \E b \in Buttons, m \in Sensors :
        /\ pc[m] = "mo_trigger"
        /\ glock = b /\ lock = b


\* a press has drawn its blanking frame and its sleep() has not yet run
PressBetween(b) ==
    \/ pc[b] \in {"pb_wait", "pb_sleep"}
    \/ pc[b] = "wui_wait" /\ local[b].ret = "pb_sleep"
    \/ pc[b] \in {"sl_lock", "sl_body"} /\ local[b].ret = "pb_set"

\* the frame display_image makes of the blanking image
PressFrame ==
    IF is_solid_black(blanking_image) THEN fast_frame(blanking_image)
    ELSE render(blanking_image)

\* C27: under any interleaving of a button press from Awake with scheduler
\* display_image calls, once the press's blanking frame is on the panel and
\* until its sleep() has run, no step changes the frame on the panel or the
\* cached frame, so that the blanking frame is still the last one pushed
\* when the press completes.
C27_NoFrameBetween ==
    [][(\E b \in Buttons : ~asleep /\ PressBetween(b) /\ panel = PressFrame)
         => panel' = panel /\ current_image_file' = current_image_file]_vars

====
